---- MODULE Spec2Model ----
(***************************************************************************)
(* A state-machine model of src/cachesim/cachesim.c: a trace-driven        *)
(* set-associative cache simulator (main -> parse_arguments -> init_cache  *)
(* -> sim_cache -> cleanup_memory -> display_statistics).                  *)
(*                                                                         *)
(* Representation of C values                                              *)
(*   int          a TLA+ integer in INT_MIN .. INT_MAX                     *)
(*   addr_t,      the set of positions of the 1 bits of the value (an      *)
(*   uint64_t     address is a subset of 0 .. ADDR_WIDTH-1), so that &, |, *)
(*   bit fields   <<, >> are computed at their full width                  *)
(*   plru_bits    the set of tree nodes whose bit is 1                     *)
(*                                                                         *)
(* The macro of log.h that the source calls with a condition and a message *)
(* is taken to print the message and end the process when the condition    *)
(* is false: pc = "fatal" and err = the message.  A process killed by a    *)
(* signal is pc = "crashed", one that loops forever pc = "hang".           *)
(***************************************************************************)
EXTENDS Integers, Naturals, Sequences, FiniteSets, TLC

VARIABLES
    pc,                 \* position of main()
    err,                \* diagnostic of the fatal stop, "" when none
    config,             \* static cache_config_t config
    cache_ptr,          \* static cache_set_t *cache: "NULL" or "heap"
    cache,              \* the set array cache points to (<< >> when none)
    total_access_times, \* static uint64_t total_access_times
    total_hit_times,    \* static uint64_t total_hit_times
    reports,            \* statistics reports printed by display_statistics
    last,               \* history: the most recent completed access_cache call
    hist                \* history: per set, what access_cache did there so far

vars == <<pc, err, config, cache_ptr, cache, total_access_times,
          total_hit_times, reports, last, hist>>

(***************************************************************************)
(* Constants of the program and bounds of the model                        *)
(***************************************************************************)
ADDR_WIDTH == 32

\* INT_MIN of the 32-bit int the configuration fields are stored in
IntMin == -2147483647 - 1

\* the largest associativity check_config accepts
MaxAssociativity == 64

\* at most this many addresses are read from the trace file
MaxTrace == 5

POLICY_PLRU == "PLRU"
POLICY_FIFO == "FIFO"
POLICY_RANDOM == "RANDOM"

(***************************************************************************)
(* Bit-level helpers on bit sets                                           *)
(***************************************************************************)
\* the bit set of an integer 0 <= n < 2^31
Bits(n) == {i \in 0..30 : (n \div 2^i) % 2 = 1}

\* the bit set of (uint32_t) n for a 32-bit int n: two's complement
U32(n) == IF n >= 0 THEN Bits(n) ELSE Bits(n - IntMin) \cup {31}

RECURSIVE ToNat(_)
\* the value of a bit set (used where the value is small: an array index)
ToNat(s) == IF s = {} THEN 0
            ELSE LET b == CHOOSE x \in s : TRUE IN 2^b + ToNat(s \ {b})

BitAnd(a, b) == a \cap b
BitOr(a, b) == a \cup b
\* a >> k and a << k on a 64-bit unsigned value
Shr(a, k) == {b - k : b \in {x \in a : x >= k}}
Shl(a, k) == {b + k : b \in {x \in a : x + k <= 63}}
\* n - 1 for an unsigned n > 0: the lowest 1 bit is cleared, the bits below set
Dec(a) == LET l == CHOOSE x \in a : \A y \in a : x <= y
          IN (a \ {l}) \cup 0..(l - 1)

\* C's signed division (truncation toward zero), b # 0 and no overflow
CDiv(a, b) ==
    IF b = IntMin THEN (IF a = IntMin THEN 1 ELSE 0)
    ELSE LET q == a \div b IN IF q < 0 /\ q * b # a THEN q + 1 ELSE q

RECURSIVE LOG2(_)
\* the LOG2 macro for n >= 0: the number of right shifts that empty n, less
\* one (so LOG2(0) = -1).  For n < 0 the loop `while (num) num >>= 1` never
\* ends (the shift of a negative int keeps the sign): see init_derive.
LOG2(n) == IF n = 0 THEN -1 ELSE 1 + LOG2(n \div 2)

BIT_MASK(bits) == 0..(bits - 1)
\* GET_BITS with the mask one bit short: the top bit of the field is lost
GET_BITS_short_mask(a, hi, lo) == Shr(BitAnd(a, BIT_MASK(hi)), lo)

GET_BITS(a, hi, lo) == Shr(BitAnd(a, BIT_MASK(hi + 1)), lo)
GET_OFFSET(addr) == GET_BITS(addr, config.bits_for_offset - 1, 0)
GET_INDEX(addr) ==
    GET_BITS(addr, config.bits_for_offset + config.bits_for_index - 1,
             config.bits_for_offset)
\* the tag taken from bit 0 upwards, offset and index bits included
GET_TAG_from_bit_0(addr) == GET_BITS(addr, ADDR_WIDTH - 1, 0)

GET_TAG(addr) ==
    GET_BITS(addr, ADDR_WIDTH - 1,
             config.bits_for_offset + config.bits_for_index)

\* uint32_t is_pow_2(uint32_t n): n > 0 and n & (n - 1) == 0
is_pow_2(n) == LET u == U32(n) IN u # {} /\ BitAnd(u, Dec(u)) = {}

(***************************************************************************)
(* Inputs                                                                  *)
(***************************************************************************)
\* -s total_size, -b block_size, -a associativity; 0 for an option that is
\* not given (config is zero-initialised)
Geometries == {
    <<16, 4, 1>>, <<16, 4, 2>>, <<4, 1, 4>>, <<8, 4, 2>>,   \* well formed
    <<0, 4, 1>>, <<16, 0, 1>>, <<16, 4, 0>>,                \* one missing
    <<6, 2, 1>>, <<16, 3, 1>>, <<16, 4, 3>>,                \* not powers of 2
    <<4, 4, 2>>,                                            \* more ways than blocks
    <<128, 1, 128>>,                                        \* more than 64 ways
    <<16, 4, IntMin>>, <<IntMin, 4, 1>> }                   \* atoi("-2147483648")

\* the names -p accepts
Policies == {POLICY_FIFO, POLICY_PLRU, POLICY_RANDOM}

\* the command lines run: every geometry under every policy, but the 4-way
\* store under FIFO and PLRU only
Argvs == (Geometries \X Policies) \ {<<<<4, 1, 4>>, POLICY_RANDOM>>}

\* addresses of the trace: 0x0, 0x4, 0x8, 0xC, 0xD, 0x8000000C
Addrs == {Bits(0), Bits(4), Bits(8), Bits(12), Bits(13), Bits(12) \cup {31}}

(***************************************************************************)
(* History records                                                         *)
(***************************************************************************)
NoEvent == [kind |-> "none", addr |-> {}, index |-> 0, tag |-> {}, way |-> 0]
NoHist == [last |-> NoEvent, prev |-> NoEvent, accesses |-> 0, misses |-> 0,
           tags |-> {}]

(***************************************************************************)
(* main() before the simulation                                            *)
(***************************************************************************)
Init ==
    /\ pc = "parse"
    /\ err = ""
    /\ config = [total_size |-> 0, block_size |-> 0, block_num |-> 0,
                 associativity |-> 0, policy |-> POLICY_PLRU, set_num |-> 0,
                 bits_for_offset |-> 0, bits_for_index |-> 0,
                 bits_for_tag |-> 0]
    /\ cache_ptr = "NULL"
    /\ cache = << >>
    /\ total_access_times = 0
    /\ total_hit_times = 0
    /\ reports = << >>
    /\ last = NoEvent
    /\ hist = << >>

\* parse_arguments: -s, -b, -a, -p (and -t); -h prints the usage and exits,
\* an unknown option or an unknown policy name stops fatally
parse_arguments ==
    /\ pc = "parse"
    /\ \/ \E argv \in Argvs :
            /\ config' = [config EXCEPT !.total_size = argv[1][1],
                                        !.block_size = argv[1][2],
                                        !.associativity = argv[1][3],
                                        !.policy = argv[2]]
            /\ pc' = "init"
            /\ err' = err
       \/ /\ pc' = "fatal"
          /\ err' = "Invalid replacement policy."
          /\ config' = config
       \/ /\ pc' = "fatal"
          /\ err' = "Unknown argument(s)!"
          /\ config' = config
       \/ /\ pc' = "exit"
          /\ err' = err
          /\ config' = config
    /\ UNCHANGED <<cache_ptr, cache, total_access_times, total_hit_times,
                   reports, last, hist>>

\* init_cache, lines 167-172: the derived fields.  A division by zero is
\* undefined: the build either traps (SIGFPE, x86) or yields 0 (hardware
\* without a divide trap).  LOG2 of a negative int never returns.
init_derive ==
    /\ pc = "init"
    /\ \E trap \in BOOLEAN :
         LET byZero == config.block_size = 0 \/ config.associativity = 0
             block_num == IF config.block_size = 0 THEN 0
                          ELSE CDiv(config.total_size, config.block_size)
             set_num == IF config.associativity = 0 THEN 0
                        ELSE CDiv(block_num, config.associativity)
         IN  IF trap
             THEN /\ byZero
                  /\ pc' = "crashed"
                  /\ err' = "SIGFPE"
                  /\ config' = config
             ELSE IF config.block_size < 0 \/ set_num < 0
             THEN /\ pc' = "hang"
                  /\ err' = err
                  /\ config' = [config EXCEPT !.block_num = block_num,
                                              !.set_num = set_num]
             ELSE /\ pc' = "alloc"
                  /\ err' = err
                  /\ config' =
                       [config EXCEPT
                          !.block_num = block_num,
                          !.set_num = set_num,
                          !.bits_for_offset = LOG2(config.block_size),
                          !.bits_for_index = LOG2(set_num),
                          !.bits_for_tag = ADDR_WIDTH - LOG2(config.block_size)
                                             - LOG2(set_num)]
    /\ UNCHANGED <<cache_ptr, cache, total_access_times, total_hit_times,
                   reports, last, hist>>

\* the store init_cache builds: set_num sets of associativity zeroed lines
new_cache ==
    [i \in 0..(config.set_num - 1) |->
        [cache_line |-> [w \in 0..(config.associativity - 1) |->
                            [valid |-> 0, tag |-> {}]],
         plru_bits |-> {},
         fifo_pointer |-> 0]]

\* init_cache, lines 174-202: malloc of the set array, calloc of each set's
\* lines.  Either allocation may fail; a calloc of a negative count (as
\* size_t) always does.
init_alloc ==
    /\ pc = "alloc"
    /\ \E r \in {"ok", "malloc", "calloc"} :
         \/ /\ r = "malloc"
            /\ pc' = "fatal"
            /\ err' = "Fail to alloc memory for cache."
            /\ UNCHANGED <<cache_ptr, cache, hist>>
         \/ /\ r = "calloc"
            /\ config.set_num > 0
            /\ pc' = "exit"
            /\ err' = "Fail to alloc memory for cache line."
            /\ UNCHANGED <<cache_ptr, cache, hist>>
         \/ /\ r = "ok"
            /\ config.set_num > 0 => config.associativity >= 0
            /\ pc' = "check"
            /\ err' = err
            /\ cache_ptr' = "heap"
            /\ cache' = new_cache
            /\ hist' = [i \in 0..(config.set_num - 1) |-> NoHist]
    /\ UNCHANGED <<config, total_access_times, total_hit_times, reports, last>>

\* the first check of check_config that fails, "" when all pass
check_config ==
    IF config.associativity = 0 \/ config.total_size = 0
       \/ config.block_size = 0
    THEN "Missing initialization parameter(s)."
    ELSE IF ~is_pow_2(config.total_size)
    THEN "Cache szie must be power of 2 and cache size can not be zero."
    ELSE IF ~is_pow_2(config.block_size)
    THEN "Block size must be power of 2 and block size can not be zero."
    ELSE IF ~is_pow_2(config.associativity)
    THEN "Associativity must be power of 2 and associativity can not be zero."
    ELSE IF config.associativity > config.block_num
    THEN "Associativity must equal or less than block number."
    ELSE IF config.associativity > MaxAssociativity
    THEN "Associativity must less than 64."
    ELSE ""

\* init_cache, line 204: check_config runs last, the store already built
init_check ==
    /\ pc = "check"
    /\ IF check_config = ""
       THEN pc' = "open" /\ err' = err
       ELSE pc' = "fatal" /\ err' = check_config
    /\ UNCHANGED <<config, cache_ptr, cache, total_access_times,
                   total_hit_times, reports, last, hist>>

(***************************************************************************)
(* Replacement engine                                                      *)
(***************************************************************************)
RECURSIVE update_plru_loop_toward(_, _, _, _, _)
\* the loop of update_plru_victim_way with its two branches swapped: every
\* bit on the way points toward the way that was hit
update_plru_loop_toward(plru_bits, node, i, tree_level, hit_way) ==
    IF i >= tree_level THEN plru_bits
    ELSE LET shift == tree_level - 1 - i
             direction == (hit_way \div 2^shift) % 2
         IN  update_plru_loop_toward(
                 IF direction = 1 THEN plru_bits \cup {node}
                                  ELSE plru_bits \ {node},
                 node * 2 + 1 + direction, i + 1, tree_level, hit_way)

RECURSIVE update_plru_loop(_, _, _, _, _)
\* the for loop of update_plru_victim_way from iteration i on
update_plru_loop(plru_bits, current_node_index, i, tree_level, hit_way) ==
    IF i >= tree_level THEN plru_bits
    ELSE LET shift == tree_level - 1 - i
             direction == (hit_way \div 2^shift) % 2
         IN  update_plru_loop(
                 IF direction = 1 THEN plru_bits \ {current_node_index}
                                  ELSE plru_bits \cup {current_node_index},
                 current_node_index * 2 + 1 + direction,
                 i + 1, tree_level, hit_way)

\* update_plru_victim_way: every bit on the way to hit_way points away from it
update_plru_victim_way(current_cache_set, hit_way) ==
    IF config.associativity = 1 THEN current_cache_set
    ELSE [current_cache_set EXCEPT
            !.plru_bits = update_plru_loop(@, 0, 0, LOG2(config.associativity),
                                           hit_way)]

\* the descent that moves to child 2*current + bit, without the + 1
RECURSIVE find_plru_loop_bad_child(_, _, _, _, _)
find_plru_loop_bad_child(plru_bits, current_node_index, i, tree_level, victim_way) ==
    IF i >= tree_level THEN [plru_bits |-> plru_bits, way |-> victim_way]
    ELSE LET bit == IF current_node_index \in plru_bits THEN 1 ELSE 0
         IN  find_plru_loop_bad_child(
                 IF bit = 1 THEN plru_bits \ {current_node_index}
                            ELSE plru_bits \cup {current_node_index},
                 current_node_index * 2 + bit,
                 i + 1, tree_level, victim_way * 2 + bit)

\* the descent that flips the root bit only
RECURSIVE find_plru_loop_root_only(_, _, _, _, _)
find_plru_loop_root_only(plru_bits, current_node_index, i, tree_level, victim_way) ==
    IF i >= tree_level THEN [plru_bits |-> plru_bits, way |-> victim_way]
    ELSE LET bit == IF current_node_index \in plru_bits THEN 1 ELSE 0
         IN  find_plru_loop_root_only(
                 IF i # 0 THEN plru_bits
                 ELSE IF bit = 1 THEN plru_bits \ {current_node_index}
                                 ELSE plru_bits \cup {current_node_index},
                 current_node_index * 2 + 1 + bit,
                 i + 1, tree_level, victim_way * 2 + bit)

RECURSIVE find_plru_loop(_, _, _, _, _)
\* the for loop of find_and_updata_plru_victim_way from iteration i on
find_plru_loop(plru_bits, current_node_index, i, tree_level, victim_way) ==
    IF i >= tree_level THEN [plru_bits |-> plru_bits, way |-> victim_way]
    ELSE LET bit == IF current_node_index \in plru_bits THEN 1 ELSE 0
         IN  find_plru_loop(
                 IF bit = 1 THEN plru_bits \ {current_node_index}
                            ELSE plru_bits \cup {current_node_index},
                 current_node_index * 2 + 1 + bit,
                 i + 1, tree_level, victim_way * 2 + bit)

\* find_and_updata_plru_victim_way that reads the victim and leaves the bits
find_plru_no_update(current_cache_set) ==
    IF config.associativity = 1
    THEN [set |-> current_cache_set, way |-> 0]
    ELSE [set |-> current_cache_set,
          way |-> find_plru_loop(current_cache_set.plru_bits, 0, 0,
                                 LOG2(config.associativity), 0).way]

\* find_and_updata_plru_victim_way: follow the bits from the root, flipping
\* each one passed; the bits read are the victim way, most significant first
find_and_updata_plru_victim_way(current_cache_set) ==
    IF config.associativity = 1
    THEN [set |-> current_cache_set, way |-> 0]
    ELSE LET r == find_plru_loop(current_cache_set.plru_bits, 0, 0,
                                 LOG2(config.associativity), 0)
         IN  [set |-> [current_cache_set EXCEPT !.plru_bits = r.plru_bits],
              way |-> r.way]

\* find_and_update_fifo_victim_way that advances before it reads the victim
find_fifo_advance_first(current_cache_set) ==
    [set |-> [current_cache_set EXCEPT
                !.fifo_pointer = (@ + 1) % config.associativity],
     way |-> (current_cache_set.fifo_pointer + 1) % config.associativity]

\* find_and_update_fifo_victim_way that never advances the pointer
find_fifo_no_advance(current_cache_set) ==
    [set |-> current_cache_set, way |-> current_cache_set.fifo_pointer]

\* find_and_update_fifo_victim_way: the pointer is the victim, then advances
find_and_update_fifo_victim_way(current_cache_set) ==
    [set |-> [current_cache_set EXCEPT
                !.fifo_pointer = (@ + 1) % config.associativity],
     way |-> current_cache_set.fifo_pointer]

\* values rand() may return
RandValues == {0, 1, 2, 3, 2147483647}

\* find_random_victim_way, for the value r that rand() returns
\* rand() reduced modulo one more than the number of ways
find_random_off_by_one(r) == r % (config.associativity + 1)

find_random_victim_way(r) == r % config.associativity

(***************************************************************************)
(* access_cache                                                            *)
(***************************************************************************)
\* the lookup without the test of the valid flag
find_hit_way_any_line(current_cache_set, tag) ==
    LET ways == {i \in DOMAIN current_cache_set.cache_line :
                    tag = current_cache_set.cache_line[i].tag}
    IN  IF ways = {} THEN -1
        ELSE CHOOSE i \in ways : \A j \in ways : i <= j

\* lines 292-300: the first way holding tag in a valid line, -1 when none
\* the lookup that inspects way 0 only
find_hit_way_first_only(current_cache_set, tag) ==
    IF /\ 0 \in DOMAIN current_cache_set.cache_line
       /\ tag = current_cache_set.cache_line[0].tag
       /\ current_cache_set.cache_line[0].valid # 0
    THEN 0 ELSE -1

find_hit_way(current_cache_set, tag) ==
    LET ways == {i \in DOMAIN current_cache_set.cache_line :
                    /\ tag = current_cache_set.cache_line[i].tag
                    /\ current_cache_set.cache_line[i].valid # 0}
    IN  IF ways = {} THEN -1
        ELSE CHOOSE i \in ways : \A j \in ways : i <= j

\* total_hit_times++ placed before the test of hit_way
hit_times_always(hit_way) == total_hit_times + 1

\* lines 302-303: total_hit_times after the lookup
hit_times_after(hit_way) ==
    IF hit_way # -1 THEN total_hit_times + 1 ELSE total_hit_times

\* lines 305-308: the policy state of the set after a hit
on_hit(current_cache_set, hit_way) ==
    IF config.policy = POLICY_PLRU
    THEN update_plru_victim_way(current_cache_set, hit_way)
    ELSE current_cache_set

\* lines 312-324: the switch over the policy
select_victim(current_cache_set, r) ==
    CASE config.policy = POLICY_PLRU ->
            find_and_updata_plru_victim_way(current_cache_set)
      [] config.policy = POLICY_FIFO ->
            find_and_update_fifo_victim_way(current_cache_set)
      [] config.policy = POLICY_RANDOM ->
            [set |-> current_cache_set, way |-> find_random_victim_way(r)]

\* the installation without `valid = 1`
install_line_tag_only(current_cache_set, victim_way, tag) ==
    [current_cache_set EXCEPT !.cache_line[victim_way].tag = tag]

\* the installation without `tag = tag`
install_line_valid_only(current_cache_set, victim_way, tag) ==
    [current_cache_set EXCEPT !.cache_line[victim_way].valid = 1]

\* lines 328-329: the victim line takes the tag and becomes valid
install_line(current_cache_set, victim_way, tag) ==
    [current_cache_set EXCEPT
        !.cache_line[victim_way] = [valid |-> 1, tag |-> tag]]

\* the history of a set after one more completed access
record(h, e) ==
    [last |-> [e EXCEPT !.addr = {}],
     prev |-> h.last,
     accesses |-> h.accesses + 1,
     misses |-> h.misses + (IF e.kind = "miss" THEN 1 ELSE 0),
     tags |-> h.tags \cup {e.tag}]

\* access_cache(addr).  With no set at cache[index] (a store of zero sets)
\* the read is out of bounds: the process dies of SIGSEGV on the line pointer.
access_cache(addr) ==
    LET index == ToNat(GET_INDEX(addr))
        tag == GET_TAG(addr)
    IN
    /\ total_access_times' = total_access_times + 1
    /\ IF index \notin DOMAIN cache
       THEN /\ pc' = "crashed"
            /\ err' = "SIGSEGV"
            /\ UNCHANGED <<cache, total_hit_times, last, hist>>
       ELSE
       LET current_cache_set == cache[index]
           hit_way == find_hit_way(current_cache_set, tag)
       IN
       /\ total_hit_times' = hit_times_after(hit_way)
       /\ IF hit_way # -1
          THEN LET e == [kind |-> "hit", addr |-> addr, index |-> index,
                         tag |-> tag, way |-> hit_way]
               IN  /\ cache' = [cache EXCEPT
                                  ![index] = on_hit(current_cache_set, hit_way)]
                   /\ last' = e
                   /\ hist' = [hist EXCEPT ![index] = record(@, e)]
                   /\ UNCHANGED <<pc, err>>
          ELSE \E r \in RandValues :
               LET v == select_victim(current_cache_set, r)
                   e == [kind |-> "miss", addr |-> addr, index |-> index,
                         tag |-> tag, way |-> v.way]
               IN  IF v.way >= 0 /\ v.way < config.associativity
                   THEN /\ cache' = [cache EXCEPT
                                       ![index] = install_line(v.set, v.way, tag)]
                        /\ last' = e
                        /\ hist' = [hist EXCEPT ![index] = record(@, e)]
                        /\ UNCHANGED <<pc, err>>
                   ELSE /\ cache' = [cache EXCEPT ![index] = v.set]
                        /\ pc' = "fatal"
                        /\ err' = "Error victim way."
                        /\ UNCHANGED <<last, hist>>

(***************************************************************************)
(* sim_cache, cleanup_memory, display_statistics                           *)
(***************************************************************************)
\* sim_cache, lines 337-340: fopen of the trace file
sim_cache_open ==
    /\ pc = "open"
    /\ \/ pc' = "sim" /\ err' = err
       \/ pc' = "fatal" /\ err' = "Open trace file failed."
    /\ UNCHANGED <<config, cache_ptr, cache, total_access_times,
                   total_hit_times, reports, last, hist>>

\* sim_cache, lines 348-350: fread delivers one address, access_cache runs
sim_cache_read ==
    /\ pc = "sim"
    /\ total_access_times < MaxTrace
    /\ \E addr \in Addrs : access_cache(addr)
    /\ UNCHANGED <<config, cache_ptr, reports>>

\* the end of the loop with a read error that is reported but not fatal
sim_cache_end_error_not_fatal ==
    /\ pc = "sim"
    /\ pc' = "cleanup"
    /\ \/ err' = err
       \/ err' = "Error(s) occurred while reading the trace file."
    /\ last' = NoEvent
    /\ hist' = << >>
    /\ UNCHANGED <<config, cache_ptr, cache, total_access_times,
                   total_hit_times, reports>>

\* sim_cache, lines 348, 357-362: fread delivers nothing, by end of input or
\* by a read error.  The history of the accesses ends with the loop.
sim_cache_end ==
    /\ pc = "sim"
    /\ \/ pc' = "cleanup" /\ err' = err
       \/ pc' = "fatal"
          /\ err' = "Error(s) occurred while reading the trace file."
    /\ last' = NoEvent
    /\ hist' = << >>
    /\ UNCHANGED <<config, cache_ptr, cache, total_access_times,
                   total_hit_times, reports>>

cleanup_memory ==
    /\ pc = "cleanup"
    /\ pc' = "stats"
    /\ IF cache_ptr # "NULL"
       THEN cache_ptr' = "NULL" /\ cache' = << >>
       ELSE UNCHANGED <<cache_ptr, cache>>
    /\ UNCHANGED <<err, config, total_access_times, total_hit_times, reports,
                   last, hist>>

display_statistics ==
    /\ pc = "stats"
    /\ pc' = "done"
    /\ reports' = Append(reports,
                         [accesses |-> total_access_times,
                          hits |-> total_hit_times,
                          misses |-> total_access_times - total_hit_times])
    /\ UNCHANGED <<err, config, cache_ptr, cache, total_access_times,
                   total_hit_times, last, hist>>

Next ==
    \/ parse_arguments
    \/ init_derive
    \/ init_alloc
    \/ init_check
    \/ sim_cache_open
    \/ sim_cache_read
    \/ sim_cache_end
    \/ cleanup_memory
    \/ display_statistics

Spec == Init /\ [][Next]_vars

(***************************************************************************)
(* Vocabulary of the properties                                            *)
(***************************************************************************)
\* this step is a completed access_cache call on set s
Accessed(s) ==
    /\ s \in DOMAIN hist
    /\ s \in DOMAIN hist'
    /\ hist'[s].accesses = hist[s].accesses + 1

CheckConfigErrors == {
    "Missing initialization parameter(s).",
    "Cache szie must be power of 2 and cache size can not be zero.",
    "Block size must be power of 2 and block size can not be zero.",
    "Associativity must be power of 2 and associativity can not be zero.",
    "Associativity must equal or less than block number.",
    "Associativity must less than 64." }

\* check_config has returned without a fatal stop
Accepted ==
    \/ pc \in {"open", "sim", "cleanup", "stats", "done"}
    \/ pc = "fatal" /\ err \in {"Open trace file failed.", "Error victim way.",
                               "Error(s) occurred while reading the trace file."}
    \/ pc = "crashed" /\ err = "SIGSEGV"

\* init_cache has ended otherwise than by a failed allocation
InitCacheEnded ==
    \/ Accepted
    \/ pc = "fatal" /\ err \in CheckConfigErrors
    \/ pc = "crashed" /\ err = "SIGFPE"
    \/ pc = "hang"

\* addresses the decoder is probed with: every combination of these bits
ProbeAddrs == SUBSET {0, 1, 2, 3, 4, 30, 31}

\* the tree node at depth i on the way from the root to leaf w, and the
\* direction taken there, in a complete tree of 2^level leaves stored as a heap
PathNode(w, i, level) == 2^i - 1 + (w \div 2^(level - i))
PathDir(w, i, level) == (w \div 2^(level - 1 - i)) % 2

(***************************************************************************)
(* C1  Under FIFO, the k-th miss to a set (k = 0, 1, ...) installs its tag *)
(* in way k mod associativity, however hits are interleaved: the victim of *)
(* the latest miss of a set is way (misses - 1) mod associativity and      *)
(* holds the tag, and the set's fifo_pointer is (misses mod associativity) *)
(* in every state, so a hit (which adds no miss) never changes it.         *)
(***************************************************************************)
C1_FifoVictimSequence ==
    (pc = "sim" /\ config.policy = POLICY_FIFO) =>
        \A s \in DOMAIN cache :
            /\ cache[s].fifo_pointer = hist[s].misses % config.associativity
            /\ hist[s].last.kind = "miss" =>
                 /\ hist[s].last.way =
                        (hist[s].misses - 1) % config.associativity
                 /\ cache[s].cache_line[hist[s].last.way] =
                        [valid |-> 1, tag |-> hist[s].last.tag]
            /\ hist[s].prev.kind = "miss" /\ hist[s].last.kind = "hit" =>
                 cache[s].fifo_pointer =
                     (hist[s].prev.way + 1) % config.associativity

\* a set under FIFO whose pointer has wrapped around, hits interleaved
C1_Witness ==
    /\ pc = "sim"
    /\ config.policy = POLICY_FIFO
    /\ config.associativity >= 2
    /\ \E s \in DOMAIN cache :
          /\ hist[s].misses > config.associativity
          /\ hist[s].accesses > hist[s].misses
          /\ hist[s].last.kind = "miss"

(***************************************************************************)
(* C2  Under PLRU with associativity >= 2, two consecutive misses to one   *)
(* set with no hit in that set between them take different victim ways.    *)
(***************************************************************************)
C2_PlruNoRepeatedVictim ==
    (pc = "sim" /\ config.policy = POLICY_PLRU /\ config.associativity >= 2) =>
        \A s \in DOMAIN cache :
            (hist[s].prev.kind = "miss" /\ hist[s].last.kind = "miss") =>
                hist[s].last.way # hist[s].prev.way

\* two misses in a row in a PLRU set that was hit before
C2_Witness ==
    /\ pc = "sim"
    /\ config.policy = POLICY_PLRU
    /\ config.associativity >= 2
    /\ \E s \in DOMAIN cache :
          /\ hist[s].prev.kind = "miss"
          /\ hist[s].last.kind = "miss"
          /\ hist[s].accesses > hist[s].misses

(***************************************************************************)
(* C3  Under PLRU with associativity >= 2, after a hit on way w every node *)
(* on the way from the root to w has bit = 1 - (direction of w there), and *)
(* a miss that follows the hit in that set takes a victim other than w.    *)
(***************************************************************************)
C3_PlruHitPointsAway ==
    (pc = "sim" /\ config.policy = POLICY_PLRU /\ config.associativity >= 2) =>
        \A s \in DOMAIN cache :
            LET level == LOG2(config.associativity)
                w == hist[s].last.way
            IN  /\ hist[s].last.kind = "hit" =>
                     \A i \in 0..(level - 1) :
                         (PathNode(w, i, level) \in cache[s].plru_bits)
                             <=> (PathDir(w, i, level) = 0)
                /\ (hist[s].prev.kind = "hit" /\ hist[s].last.kind = "miss") =>
                     hist[s].last.way # hist[s].prev.way

\* a miss right after a hit in a 4-way PLRU set
C3_Witness ==
    /\ pc = "sim"
    /\ config.policy = POLICY_PLRU
    /\ config.associativity = 4
    /\ \E s \in DOMAIN cache :
          /\ hist[s].prev.kind = "hit"
          /\ hist[s].last.kind = "miss"

(***************************************************************************)
(* C4  total_hit_times <= total_access_times in every state; a call of     *)
(* access_cache adds exactly 1 to total_access_times, and 1 to             *)
(* total_hit_times on a hit and 0 on a miss; no other step changes either  *)
(* counter, and neither ever decreases.                                    *)
(***************************************************************************)
C4_Counters ==
    [][ /\ total_hit_times' <= total_access_times'
        /\ total_access_times' >= total_access_times
        /\ total_hit_times' >= total_hit_times
        /\ pc # "sim" => UNCHANGED <<total_access_times, total_hit_times>>
        /\ \A s \in DOMAIN hist :
              Accessed(s) =>
                 /\ total_access_times' = total_access_times + 1
                 /\ hist'[s].last.kind = "hit" =>
                        total_hit_times' = total_hit_times + 1
                 /\ hist'[s].last.kind = "miss" =>
                        total_hit_times' = total_hit_times
      ]_vars

\* hits and misses have both been counted
C4_Witness ==
    /\ pc = "sim"
    /\ total_hit_times >= 2
    /\ total_access_times - total_hit_times >= 2

(***************************************************************************)
(* C5  Under every policy an access whose (index, tag) pair was not        *)
(* accessed before is a miss, also for tag 0 on a fresh set; so while no   *)
(* set has been visited twice total_hit_times is 0.                        *)
(***************************************************************************)
C5_FirstAccessMisses ==
    [][ /\ \A s \in DOMAIN hist :
              (Accessed(s) /\ hist'[s].last.tag \notin hist[s].tags) =>
                  hist'[s].last.kind = "miss"
        /\ (pc' = "sim" /\ \A s \in DOMAIN hist' : hist'[s].accesses <= 1) =>
              total_hit_times' = 0
      ]_vars

\* each of four sets visited once, each time with tag 0, each time a miss
C5_Witness ==
    /\ pc = "sim"
    /\ config.set_num = 4
    /\ last.kind = "miss"
    /\ last.tag = {}
    /\ \A s \in DOMAIN cache : hist[s].accesses = 1 /\ hist[s].tags = {{}}
    /\ total_access_times = 4
    /\ total_hit_times = 0

(***************************************************************************)
(* C6  While the store exists: a hit changes no line; a miss changes       *)
(* exactly one line, the victim way of the addressed set, to valid with    *)
(* the decoded tag; a set that is not accessed keeps its lines, plru_bits  *)
(* and fifo_pointer; a valid line never becomes invalid.                   *)
(***************************************************************************)
C6_LinesChangeOnMissOnly ==
    [][ (cache_ptr = "heap" /\ cache_ptr' = "heap") =>
          \A s \in DOMAIN cache :
             LET old == cache[s].cache_line
                 new == cache'[s].cache_line
                 changed == {w \in DOMAIN old : new[w] # old[w]}
             IN  /\ \A w \in DOMAIN old : old[w].valid = 1 => new[w].valid = 1
                 /\ ~Accessed(s) => cache'[s] = cache[s]
                 /\ (Accessed(s) /\ hist'[s].last.kind = "hit") =>
                        changed = {}
                 /\ (Accessed(s) /\ hist'[s].last.kind = "miss") =>
                        /\ changed = {hist'[s].last.way}
                        /\ new[hist'[s].last.way] =
                               [valid |-> 1, tag |-> hist'[s].last.tag]
      ]_vars

\* a miss has overwritten a valid line in a store of several sets, after a hit
C6_Witness ==
    /\ pc = "sim"
    /\ config.set_num >= 2
    /\ total_hit_times >= 1
    /\ last.kind = "miss"
    /\ hist[last.index].misses > config.associativity

(***************************************************************************)
(* C7  A run with total_size, block_size or associativity zero (unset)     *)
(* leaves init_cache by the missing-parameter error of check_config.       *)
(***************************************************************************)
C7_MissingParameterReported ==
    ( /\ InitCacheEnded
      /\ \/ config.total_size = 0
         \/ config.block_size = 0
         \/ config.associativity = 0 )
    => (pc = "fatal" /\ err = "Missing initialization parameter(s).")

(***************************************************************************)
(* C8  A configuration that check_config rejects stops before any store   *)
(* is allocated: at the fatal stop no set and no line array exists.        *)
(***************************************************************************)
C8_StoreOnlyAfterValidation ==
    (pc = "fatal" /\ err \in CheckConfigErrors) => cache = << >>

C10_IndexInRange ==
    pc = "open" =>
        /\ config.set_num >= 1
        /\ 2^config.bits_for_index = config.set_num
        /\ config.set_num * config.associativity * config.block_size
              = config.total_size
        /\ \A a \in ProbeAddrs :
              ToNat(GET_INDEX(a)) \in 0..(config.set_num - 1)

(***************************************************************************)
(* C11  For every configuration check_config accepts,                      *)
(* bits_for_offset + bits_for_index + bits_for_tag = ADDR_WIDTH and each   *)
(* of the three widths is >= 0.                                            *)
(***************************************************************************)
C11_WidthsPartitionAddress ==
    pc = "open" =>
        /\ config.bits_for_offset + config.bits_for_index
              + config.bits_for_tag = ADDR_WIDTH
        /\ config.bits_for_offset >= 0
        /\ config.bits_for_index >= 0
        /\ config.bits_for_tag >= 0

(***************************************************************************)
(* C12  With associativity 1, under any policy, an access hits exactly     *)
(* when an earlier access to its set exists and the most recent one had    *)
(* the same tag.  With total_size 16 and block_size 4, once 0x0, 0x4, 0x8  *)
(* and a block-0xC address have been read and 0x0 is read again last, the   *)
(* counters stand at 5 accesses and 1 hit, the hit being the final 0x0.    *)
(***************************************************************************)
C12_Scenario ==
    /\ pc = "sim"
    /\ config.total_size = 16
    /\ config.block_size = 4
    /\ config.associativity = 1
    /\ total_access_times = 5
    /\ last.addr = Bits(0)
    /\ hist[0].accesses = 2
    /\ \A s \in 1..3 : hist[s].accesses = 1
    /\ \A s \in 0..3 : hist[s].tags = {{}}

C12_DirectMapped ==
    /\ (pc = "sim" /\ config.associativity = 1) =>
          \A s \in DOMAIN cache :
              hist[s].last.kind # "none" =>
                  ( hist[s].last.kind = "hit"
                    <=> ( /\ hist[s].prev.kind # "none"
                          /\ hist[s].prev.tag = hist[s].last.tag ) )
    /\ C12_Scenario =>
          /\ total_hit_times = 1
          /\ total_access_times - total_hit_times = 4
          /\ last.kind = "hit"

\* the end of the trace 0x0, 0x4, 0x8, 0xC, 0x0 on the direct-mapped store
C12_Witness ==
    /\ C12_Scenario
    /\ last.kind = "hit"
    /\ \A s \in 1..3 : hist[s].last.kind = "miss"

(***************************************************************************)
(* C13  With total_size 8, block_size 4, associativity 2 under FIFO the    *)
(* trace 0x0, 0x4, 0x8, 0x0 misses four times: after 0x0, 0x4 the ways     *)
(* hold tags 0 and 1 and fifo_pointer is 0; 0x8 then overwrites way 0; the *)
(* final 0x0 misses, leaving 4 accesses and 0 hits.                        *)
(***************************************************************************)
\* the single set of the store has seen exactly the tags ts, the latest access
\* carrying tag t and the one before it tag p, after n accesses in all
C13_After(n, ts, p, t) ==
    /\ pc = "sim"
    /\ config.total_size = 8
    /\ config.block_size = 4
    /\ config.associativity = 2
    /\ config.policy = POLICY_FIFO
    /\ total_access_times = n
    /\ hist[0].accesses = n
    /\ hist[0].tags = ts
    /\ hist[0].prev.kind # "none"
    /\ hist[0].prev.tag = p
    /\ hist[0].last.tag = t

\* after 0x0, 0x4 (two accesses, tags 0 then 1)
C13_AfterSecond == C13_After(2, {Bits(0), Bits(1)}, Bits(0), Bits(1))
\* after 0x0, 0x4, 0x8 (three accesses, three tags, 1 then 2 last)
C13_AfterThird ==
    C13_After(3, {Bits(0), Bits(1), Bits(2)}, Bits(1), Bits(2))

C13_FifoScenario ==
    [][ /\ C13_AfterSecond' =>
              /\ total_hit_times' = 0
              /\ cache'[0].fifo_pointer = 0
              /\ cache'[0].cache_line[0] = [valid |-> 1, tag |-> Bits(0)]
              /\ cache'[0].cache_line[1] = [valid |-> 1, tag |-> Bits(1)]
        /\ C13_AfterThird' =>
              /\ total_hit_times' = 0
              /\ last'.kind = "miss"
              /\ last'.way = 0
              /\ cache'[0].cache_line[0] = [valid |-> 1, tag |-> Bits(2)]
              /\ cache'[0].cache_line[1] = [valid |-> 1, tag |-> Bits(1)]
        /\ (C13_AfterThird /\ Accessed(0) /\ last'.addr = Bits(0)) =>
              /\ last'.kind = "miss"
              /\ total_access_times' = 4
              /\ total_hit_times' = 0
      ]_vars

\* the end of the trace 0x0, 0x4, 0x8, 0x0: four misses, 0x8 before the last
C13_Witness ==
    /\ C13_After(4, {Bits(0), Bits(1), Bits(2)}, Bits(2), Bits(0))
    /\ hist[0].misses = 4
    /\ total_hit_times = 0
    /\ last.addr = Bits(0)

(***************************************************************************)
(* C14  After a trace read error the run stops fatally and no statistics   *)
(* report is ever emitted.  After an ordinary end of input the run goes on *)
(* through cleanup to exactly one report, emitted when the loop is over,   *)
(* and the report carries the count of the addresses passed to             *)
(* access_cache and the hits among them.                                   *)
(***************************************************************************)
ReadError == "Error(s) occurred while reading the trace file."

C14_ReportOnlyAfterCleanEnd ==
    /\ err = ReadError => (pc = "fatal" /\ reports = << >>)
    /\ pc = "fatal" => (reports = << >> /\ ~ ENABLED Next)
    /\ Len(reports) <= 1
    /\ pc \in {"cleanup", "stats"} => (reports = << >> /\ ENABLED Next)
    /\ pc = "done" <=> Len(reports) = 1
    /\ pc = "done" =>
          /\ reports[1].accesses = total_access_times
          /\ reports[1].hits = total_hit_times
          /\ reports[1].misses = total_access_times - total_hit_times
          /\ ~ ENABLED sim_cache_read

\* a run that read a full trace with hits and misses and emitted its report
C14_Witness ==
    /\ pc = "done"
    /\ Len(reports) = 1
    /\ reports[1].accesses = MaxTrace
    /\ reports[1].hits >= 1
    /\ reports[1].misses >= 1

\* the other branch of C14: a read error after some accesses
C14_ReadErrorReached ==
    /\ pc = "fatal"
    /\ err = ReadError
    /\ total_access_times >= 1

(***************************************************************************)
(* C15  Under every policy the victim way of a miss lies in                *)
(* 0 .. associativity-1, so the assertion of access_cache never fails, and *)
(* under FIFO every set's fifo_pointer lies in 0 .. associativity-1.       *)
(***************************************************************************)
C15_VictimInRange ==
    /\ err # "Error victim way."
    /\ \A s \in DOMAIN hist :
          hist[s].last.kind = "miss" =>
              /\ hist[s].last.way >= 0
              /\ hist[s].last.way < config.associativity
    /\ config.policy = POLICY_FIFO =>
          \A s \in DOMAIN cache :
              /\ cache[s].fifo_pointer >= 0
              /\ cache[s].fifo_pointer < config.associativity

\* a RANDOM victim in the highest way of a two-way set
C15_Witness ==
    /\ pc = "sim"
    /\ config.policy = POLICY_RANDOM
    /\ config.associativity = 2
    /\ last.kind = "miss"
    /\ last.way = 1

(***************************************************************************)
(* C17  Under every policy, in every reachable state, no set holds two     *)
(* valid lines with the same tag.                                          *)
(***************************************************************************)
C17_NoDuplicateTag ==
    \A s \in DOMAIN cache :
        \A i, j \in DOMAIN cache[s].cache_line :
            ( /\ i # j
              /\ cache[s].cache_line[i].valid # 0
              /\ cache[s].cache_line[j].valid # 0 )
            => cache[s].cache_line[i].tag # cache[s].cache_line[j].tag

\* a full set, after an eviction, re-reading a tag held in a way other than 0
C17_Witness ==
    /\ pc = "sim"
    /\ last.kind = "hit"
    /\ last.way >= 1
    /\ hist[last.index].misses > config.associativity
    /\ \A i \in DOMAIN cache[last.index].cache_line :
          cache[last.index].cache_line[i].valid = 1

(***************************************************************************)
(* C18  Under every policy, an access to an address of the block of the    *)
(* address accessed immediately before it (same bits above the offset, any *)
(* offset) is a hit.                                                       *)
(***************************************************************************)
BlockOf(addr) == {b \in addr : b >= config.bits_for_offset}

C18_RepeatHits ==
    [][ ( /\ pc = "sim"
          /\ pc' = "sim"
          /\ last.kind # "none"
          /\ total_access_times' = total_access_times + 1
          /\ BlockOf(last'.addr) = BlockOf(last.addr) )
        => last'.kind = "hit" ]_vars

\* 0xD hits under RANDOM right after the miss that brought its block in
C18_Witness ==
    /\ pc = "sim"
    /\ config.policy = POLICY_RANDOM
    /\ config.bits_for_offset = 2
    /\ last.kind = "hit"
    /\ last.addr = Bits(13)
    /\ hist[last.index].accesses = 2
    /\ hist[last.index].prev.kind = "miss"
    /\ hist[last.index].prev.tag = last.tag

(***************************************************************************)
(* C20  Under PLRU a miss overwrites a valid line only when every line of  *)
(* the addressed set is valid -- in a set of at most two ways, or in a set  *)
(* that no access has hit so far.                                          *)
(***************************************************************************)
\* the access of this step missed in set s and overwrote a valid line
OverwritesValid(s) ==
    /\ config.policy = POLICY_PLRU
    /\ Accessed(s)
    /\ hist'[s].last.kind = "miss"
    /\ cache[s].cache_line[hist'[s].last.way].valid # 0

AllValid(s) ==
    \A w \in DOMAIN cache[s].cache_line : cache[s].cache_line[w].valid # 0

C20_PlruFillsBeforeNoHit ==
    [][ \A s \in DOMAIN cache :
          ( /\ OverwritesValid(s)
            /\ \/ config.associativity <= 2
               \/ hist[s].misses = hist[s].accesses )
          => AllValid(s) ]_vars

\* C20 as claimed: for every interleaving of hits and misses
C20_PlruFillsBeforeEvicting ==
    [][ \A s \in DOMAIN cache : OverwritesValid(s) => AllValid(s) ]_vars

\* a four-way set that took five misses and no hit: the fifth evicted
C20_Witness ==
    /\ pc = "sim"
    /\ config.policy = POLICY_PLRU
    /\ config.associativity = 4
    /\ hist[0].accesses = 5
    /\ hist[0].misses = 5
    /\ \A w \in DOMAIN cache[0].cache_line : cache[0].cache_line[w].valid = 1

(***************************************************************************)
(* The two PLRU functions on their own.  SpecPlru starts in a one-set      *)
(* store of 2 .. 64 ways whose plru_bits is drawn from the values the tree *)
(* can hold: every value for trees of up to ExhaustiveLevels levels, a     *)
(* family of patterns above.  The set is full (way w holds tag w), or,     *)
(* with plru_bits = 0, empty as init_cache leaves it.  From there it       *)
(* applies the victim selection of a miss up to associativity times in a   *)
(* row, or update_plru_victim_way for one hit way.  hist[0] keeps the      *)
(* plru_bits the walk started from and the victims selected since.         *)
(***************************************************************************)
PlruAssociativities == {2, 4, 8, 16, 32, MaxAssociativity}
ExhaustiveLevels == 3

PlruBitsValues(a) ==
    IF a <= 2^ExhaustiveLevels THEN SUBSET (0..(a - 2))
    ELSE { {}, 0..(a - 2), {0}, {a - 2},
           {n \in 0..(a - 2) : n % 2 = 0},
           {n \in 0..(a - 2) : n % 2 = 1},
           {n \in 0..(a - 2) : n % 3 = 0},
           {n \in 0..(a - 2) : n >= a \div 2 - 1} }

\* the configuration init_cache derives from -s a -b 1 -a a -p PLRU
PlruConfig(a) ==
    [total_size |-> a, block_size |-> 1, block_num |-> a,
     associativity |-> a, policy |-> POLICY_PLRU, set_num |-> 1,
     bits_for_offset |-> 0, bits_for_index |-> 0,
     bits_for_tag |-> ADDR_WIDTH]

InitPlru ==
    /\ pc = "plru"
    /\ err = ""
    /\ \E a \in PlruAssociativities : config = PlruConfig(a)
    /\ cache_ptr = "heap"
    /\ \E b \in PlruBitsValues(config.associativity) :
       \E full \in {0, 1} :
          /\ full = 0 => b = {}
          /\ cache = [i \in {0} |->
                        [cache_line |->
                            [w \in 0..(config.associativity - 1) |->
                                IF full = 1 THEN [valid |-> 1, tag |-> Bits(w)]
                                            ELSE [valid |-> 0, tag |-> {}]],
                         plru_bits |-> b,
                         fifo_pointer |-> 0]]
          /\ hist = [i \in {0} |-> [start |-> b, run |-> << >>]]
    /\ total_access_times = 0
    /\ total_hit_times = 0
    /\ reports = << >>
    /\ last = NoEvent

\* access_cache, lines 312-329 under PLRU: the victim of a miss is selected
\* and takes a tag the set does not hold
plru_miss ==
    /\ pc = "plru"
    /\ Len(hist[0].run) < config.associativity
    /\ LET v == find_and_updata_plru_victim_way(cache[0])
           tag == Bits(config.associativity + Len(hist[0].run))
       IN  /\ cache' = [cache EXCEPT ![0] = install_line(v.set, v.way, tag)]
           /\ last' = [kind |-> "miss", addr |-> tag, index |-> 0,
                       tag |-> tag, way |-> v.way]
           /\ hist' = [hist EXCEPT ![0].run = Append(@, v.way)]
    /\ UNCHANGED <<pc, err, config, cache_ptr, total_access_times,
                   total_hit_times, reports>>

\* access_cache, lines 302-307 under PLRU: a hit on way hit_way
plru_hit ==
    /\ pc = "plru"
    /\ hist[0].run = << >>
    /\ \E hit_way \in 0..(config.associativity - 1) :
          /\ cache[0].cache_line[hit_way].valid # 0
          /\ cache' = [cache EXCEPT
                         ![0] = update_plru_victim_way(cache[0], hit_way)]
          /\ last' = [kind |-> "hit", addr |-> cache[0].cache_line[hit_way].tag,
                      index |-> 0, tag |-> cache[0].cache_line[hit_way].tag,
                      way |-> hit_way]
    /\ pc' = "plru_hit"
    /\ UNCHANGED <<err, config, cache_ptr, total_access_times,
                   total_hit_times, reports, hist>>

NextPlru ==
    \/ plru_miss
    \/ plru_hit

SpecPlru == InitPlru /\ [][NextPlru]_vars

\* the tree nodes on the way from the root to the leaf of way w
PathNodes(w) ==
    LET level == LOG2(config.associativity)
    IN  {PathNode(w, i, level) : i \in 0..(level - 1)}

\* the nodes whose bit differs between two plru_bits values
ChangedNodes(b1, b2) == (b1 \ b2) \cup (b2 \ b1)

(***************************************************************************)
(* C16  For 2 .. 64 ways and every plru_bits value: the plru_bits the      *)
(* victim selection leaves, having returned way v, is the plru_bits        *)
(* update_plru_victim_way(v) makes of the value before; either function    *)
(* changes bits only on the nodes from the root to the leaf of its way,    *)
(* all of them in 0 .. associativity-2.                                    *)
(***************************************************************************)
C16_PlruPathsAgree ==
    [][ pc = "plru" =>
          LET w == last'.way
              before == cache[0].plru_bits
              after == cache'[0].plru_bits
              level == LOG2(config.associativity)
          IN  /\ last'.kind = "miss" =>
                    /\ after = update_plru_victim_way(cache[0], w).plru_bits
                    /\ ChangedNodes(before, after) = PathNodes(w)
              /\ last'.kind = "hit" =>
                    /\ ChangedNodes(before, after) \subseteq PathNodes(w)
                    /\ \A i \in 0..(level - 1) :
                          PathNode(w, i, level) \in after
                              <=> PathDir(w, i, level) = 0
              /\ PathNodes(w) \subseteq 0..(config.associativity - 2)
              /\ after \subseteq 0..(config.associativity - 2)
      ]_vars

\* 64 ways, every node bit set: the selection walks right to way 63
C16_Witness ==
    /\ pc = "plru"
    /\ config.associativity = MaxAssociativity
    /\ hist[0].start = 0..(MaxAssociativity - 2)
    /\ last.kind = "miss"
    /\ last.way = MaxAssociativity - 1
    /\ Len(hist[0].run) = 1

(***************************************************************************)
(* C19  Under PLRU, from every plru_bits value, the victims of up to       *)
(* `associativity` misses in a row with no hit between are pairwise        *)
(* distinct; after `associativity` of them every way has been the victim   *)
(* once and plru_bits is back at the value it started from, so from the    *)
(* empty set they fill every way.                                          *)
(***************************************************************************)
C19_PlruMissesCycle ==
    pc = "plru" =>
        LET run == hist[0].run
        IN  /\ \A i, j \in 1..Len(run) : i # j => run[i] # run[j]
            /\ Len(run) = config.associativity =>
                  /\ {run[i] : i \in 1..Len(run)}
                        = 0..(config.associativity - 1)
                  /\ cache[0].plru_bits = hist[0].start
                  /\ \A w \in 0..(config.associativity - 1) :
                        cache[0].cache_line[w].valid = 1

\* 64 misses from the empty 64-way set: all ways filled, plru_bits 0 again
C19_Witness ==
    /\ pc = "plru"
    /\ config.associativity = MaxAssociativity
    /\ hist[0].start = {}
    /\ Len(hist[0].run) = MaxAssociativity
    /\ cache[0].plru_bits = {}
    /\ \A w \in 0..(MaxAssociativity - 1) :
          /\ cache[0].cache_line[w].valid = 1
          /\ cache[0].cache_line[w].tag \in
                {Bits(MaxAssociativity + k) : k \in 0..(MaxAssociativity - 1)}
====
